---------------------------- MODULE Spec2Model ----------------------------
(***************************************************************************)
(* SmartResumeAI: the structured-extraction, skill-matching and            *)
(* resume-optimisation workflow (app/core/ai_manager.py, app/frontend/     *)
(* ui.py), modelled as a state machine over the Streamlit session, the     *)
(* SQLite rows and the language-model backend's replies.                   *)
(*                                                                         *)
(* Text is a sequence of characters.  A character is a one-letter string,  *)
(* or a word that the model never looks inside ("json", "true", "null",    *)
(* the key names of the schema, and the JSON escapes of a backtick and  *)
(* of a line feed, which the JSON decoder reads as one character).         *)
(***************************************************************************)
EXTENDS Integers, Sequences, FiniteSets, TLC

\* ------------------------------------------------------------ characters

BT == "BT"          \* the backtick, U+0060
QT == "\""
SP == " "
NL == "NL"          \* the line feed, U+000A
FF == "FF"          \* the form feed, U+000C
ESC_BT == "\\u0060" \* the JSON escape of a backtick
ESC_NL == "\\n"     \* the JSON escape of a line feed
WJSON == "json"

\* str.strip() removes the whitespace of Python; json.loads skips only that
\* of JSON.
\* The form feed is in the first class and not in the second.
PyWhitespace == {SP, NL, FF}
JsonWhitespace == {SP, NL}
\* json.loads (strict) rejects a raw control character inside a string.
ControlChars == {NL, FF}
Digits == {"1"}

Fence == <<BT, BT, BT>>
FenceJson == <<BT, BT, BT, WJSON>>

\* ------------------------------------------------------------ str methods

\* str.lower(), one character.
LowerChar(c) == IF c = "A" THEN "a" ELSE IF c = "B" THEN "b" ELSE c

\* str.lower()
Lower(s) == [i \in 1..Len(s) |-> LowerChar(s[i])]

\* Whether pat occurs in s at index i.
OccursAt(s, pat, i) ==
    /\ i >= 1
    /\ i + Len(pat) - 1 <= Len(s)
    /\ \A k \in 1..Len(pat) : s[i + k - 1] = pat[k]

\* str.find: the least index at which pat occurs in s, 0 when there is none.
Find(s, pat) ==
    LET hits == {i \in 1..(Len(s) + 1) : OccursAt(s, pat, i)}
    IN  IF hits = {} THEN 0 ELSE CHOOSE i \in hits : \A j \in hits : i <= j

\* The operator `pat in s` on strings.
Contains(s, pat) == Find(s, pat) # 0

\* s.split(pat)[0]: the text before the first occurrence of pat, or all of s.
SplitHead(s, pat) ==
    LET i == Find(s, pat)
    IN  IF i = 0 THEN s ELSE SubSeq(s, 1, i - 1)

\* s.split(pat)[1], for s that contains pat: the text after the first
\* occurrence of pat, up to the next occurrence of pat in what follows.
SplitSecond(s, pat) ==
    LET i == Find(s, pat)
        rest == SubSeq(s, i + Len(pat), Len(s))
    IN  SplitHead(rest, pat)

RECURSIVE LStrip(_)
LStrip(s) ==
    IF s # <<>> /\ Head(s) \in PyWhitespace THEN LStrip(Tail(s)) ELSE s

RECURSIVE RStrip(_)
RStrip(s) ==
    IF s # <<>> /\ s[Len(s)] \in PyWhitespace
    THEN RStrip(SubSeq(s, 1, Len(s) - 1))
    ELSE s

\* str.strip()
Strip(s) == RStrip(LStrip(s))

\* ------------------------------------------------------------ Python values
\* A value of the json module: None, bool, int, str, list, dict.  A dict
\* keeps its keys in insertion order, as a Python dict does.

JNull == [null |-> TRUE]
JBool(b) == [bool |-> b]
JNum(n) == [num |-> n]
JStr(s) == [str |-> s]
JList(xs) == [list |-> xs]
JDict(ks, vs) == [keys |-> ks, vals |-> vs]
EmptyDict == JDict(<<>>, <<>>)

IsNull(v) == DOMAIN v = {"null"}
IsBool(v) == DOMAIN v = {"bool"}
IsNum(v) == DOMAIN v = {"num"}
IsStr(v) == DOMAIN v = {"str"}
IsList(v) == DOMAIN v = {"list"}
IsDict(v) == DOMAIN v = {"keys", "vals"}

\* bool(v): the test `if v:`.
Truthy(v) ==
    IF IsDict(v) THEN v.keys # <<>>
    ELSE IF IsList(v) THEN v.list # <<>>
    ELSE IF IsStr(v) THEN v.str # <<>>
    ELSE IF IsNum(v) THEN v.num # 0
    ELSE IF IsBool(v) THEN v.bool
    ELSE FALSE

KeyIndex(ks, k) ==
    LET hits == {i \in 1..Len(ks) : ks[i] = k}
    IN  IF hits = {} THEN 0 ELSE CHOOSE i \in hits : TRUE

\* `k in d`
HasKey(d, k) == KeyIndex(d.keys, k) # 0

\* d.get(k, default)
Get(d, k, default) ==
    LET i == KeyIndex(d.keys, k)
    IN  IF i = 0 THEN default ELSE d.vals[i]

\* d[k] = v: a new key goes last, an old key keeps its place.
DictPut(d, k, v) ==
    LET i == KeyIndex(d.keys, k)
    IN  IF i = 0
        THEN JDict(Append(d.keys, k), Append(d.vals, v))
        ELSE JDict(d.keys, [d.vals EXCEPT ![i] = v])

\* a == b on Python values: dicts compare without regard to key order.
RECURSIVE PyEq(_, _)
PyEq(a, b) ==
    IF DOMAIN a # DOMAIN b THEN FALSE
    ELSE IF IsDict(a)
    THEN /\ Len(a.keys) = Len(b.keys)
         /\ \A i \in 1..Len(a.keys) :
               /\ HasKey(b, a.keys[i])
               /\ PyEq(a.vals[i], Get(b, a.keys[i], JNull))
    ELSE IF IsList(a)
    THEN /\ Len(a.list) = Len(b.list)
         /\ \A i \in 1..Len(a.list) : PyEq(a.list[i], b.list[i])
    ELSE a = b

\* ------------------------------------------------------------ json.loads
\* The decoder of the json module, on the characters of the model: objects,
\* arrays, strings (with the two escapes), runs of digits, true and null.
\* A scan returns [ok, val, pos]: whether a value was read, the value, and
\* the index after it.

NoParse == [ok |-> FALSE, val |-> JNull, pos |-> 0]

RECURSIVE SkipWs(_, _)
SkipWs(s, i) ==
    IF i <= Len(s) /\ s[i] \in JsonWhitespace THEN SkipWs(s, i + 1) ELSE i

\* The index of the quote that closes the string whose content starts at i,
\* 0 when the string is not closed.
RECURSIVE StringEnd(_, _)
StringEnd(s, i) ==
    IF i > Len(s) THEN 0
    ELSE IF s[i] = QT THEN i
    ELSE StringEnd(s, i + 1)

DecodeChar(c) == IF c = ESC_BT THEN BT ELSE IF c = ESC_NL THEN NL ELSE c

\* py_scanstring: s[i] is the opening quote.
ScanString(s, i) ==
    LET e == StringEnd(s, i + 1)
        raw == SubSeq(s, i + 1, e - 1)
    IN  IF e = 0 \/ \E k \in 1..Len(raw) : raw[k] \in ControlChars
        THEN NoParse
        ELSE [ok |-> TRUE,
              val |-> JStr([k \in 1..Len(raw) |-> DecodeChar(raw[k])]),
              pos |-> e + 1]

RECURSIVE NumberEnd(_, _)
NumberEnd(s, i) ==
    IF i <= Len(s) /\ s[i] \in Digits THEN NumberEnd(s, i + 1) ELSE i

RECURSIVE DigitsValue(_)
DigitsValue(ds) ==
    IF ds = <<>> THEN 0
    ELSE 10 * DigitsValue(SubSeq(ds, 1, Len(ds) - 1)) + 1

RECURSIVE ScanOnce(_, _)
RECURSIVE ScanElements(_, _, _)
RECURSIVE ScanMembers(_, _, _)

\* scan_once: the value that starts exactly at index i.
ScanOnce(s, i) ==
    IF i > Len(s) THEN NoParse
    ELSE IF s[i] = QT THEN ScanString(s, i)
    ELSE IF s[i] = "{" THEN
        LET j == SkipWs(s, i + 1)
        IN  IF j <= Len(s) /\ s[j] = "}"
            THEN [ok |-> TRUE, val |-> EmptyDict, pos |-> j + 1]
            ELSE ScanMembers(s, j, EmptyDict)
    ELSE IF s[i] = "[" THEN
        LET j == SkipWs(s, i + 1)
        IN  IF j <= Len(s) /\ s[j] = "]"
            THEN [ok |-> TRUE, val |-> JList(<<>>), pos |-> j + 1]
            ELSE ScanElements(s, j, <<>>)
    ELSE IF s[i] = "null" THEN [ok |-> TRUE, val |-> JNull, pos |-> i + 1]
    ELSE IF s[i] = "true" THEN [ok |-> TRUE, val |-> JBool(TRUE), pos |-> i + 1]
    ELSE IF s[i] \in Digits THEN
        LET e == NumberEnd(s, i)
        IN  [ok |-> TRUE, val |-> JNum(DigitsValue(SubSeq(s, i, e - 1))),
             pos |-> e]
    ELSE NoParse

\* JSONArray, at the start of an element.
ScanElements(s, i, acc) ==
    LET v == ScanOnce(s, i)
        j == SkipWs(s, v.pos)
    IN  IF ~v.ok \/ j > Len(s) THEN NoParse
        ELSE IF s[j] = "]"
        THEN [ok |-> TRUE, val |-> JList(Append(acc, v.val)), pos |-> j + 1]
        ELSE IF s[j] = ","
        THEN ScanElements(s, SkipWs(s, j + 1), Append(acc, v.val))
        ELSE NoParse

\* JSONObject, at the start of a key: a key is a string, a repeated key
\* keeps the last value.
ScanMembers(s, i, acc) ==
    IF i > Len(s) \/ s[i] # QT THEN NoParse
    ELSE
        LET k == ScanString(s, i)
            c == SkipWs(s, k.pos)
        IN  IF ~k.ok \/ c > Len(s) \/ s[c] # ":" THEN NoParse
            ELSE
                LET v == ScanOnce(s, SkipWs(s, c + 1))
                    j == SkipWs(s, v.pos)
                    d == DictPut(acc, k.val.str, v.val)
                IN  IF ~v.ok \/ j > Len(s) THEN NoParse
                    ELSE IF s[j] = "}"
                    THEN [ok |-> TRUE, val |-> d, pos |-> j + 1]
                    ELSE IF s[j] = ","
                    THEN ScanMembers(s, SkipWs(s, j + 1), d)
                    ELSE NoParse

\* json.loads(s): [ok, val]; ok is FALSE where it raises JSONDecodeError
\* (no value, or extra data after the value).
JsonLoads(s) ==
    LET v == ScanOnce(s, SkipWs(s, 1))
    IN  IF v.ok /\ SkipWs(s, v.pos) > Len(s)
        THEN [ok |-> TRUE, val |-> v.val]
        ELSE [ok |-> FALSE, val |-> JNull]

\* ------------------------------------------------------------ json.dumps
\* json.dumps(v) with the default separators ", " and ": ".  Of the
\* characters of the model it escapes the line feed and writes the backtick
\* as it is.

EncodeChar(c) == IF c = NL THEN ESC_NL ELSE c

DumpsStr(str) == <<QT>> \o [k \in 1..Len(str) |-> EncodeChar(str[k])] \o <<QT>>

RECURSIVE DumpsNum(_)
DumpsNum(n) == IF n = 0 THEN <<>> ELSE DumpsNum(n \div 10) \o <<"1">>

RECURSIVE Dumps(_)
RECURSIVE DumpsItems(_, _)
RECURSIVE DumpsPairs(_, _)

Dumps(v) ==
    IF IsNull(v) THEN <<"null">>
    ELSE IF IsBool(v) THEN <<"true">>
    ELSE IF IsNum(v) THEN DumpsNum(v.num)
    ELSE IF IsStr(v) THEN DumpsStr(v.str)
    ELSE IF IsList(v) THEN <<"[">> \o DumpsItems(v.list, 1) \o <<"]">>
    ELSE <<"{">> \o DumpsPairs(v, 1) \o <<"}">>

DumpsItems(xs, i) ==
    IF i > Len(xs) THEN <<>>
    ELSE Dumps(xs[i])
         \o (IF i < Len(xs) THEN <<",", SP>> ELSE <<>>)
         \o DumpsItems(xs, i + 1)

DumpsPairs(d, i) ==
    IF i > Len(d.keys) THEN <<>>
    ELSE DumpsStr(d.keys[i]) \o <<":", SP>> \o Dumps(d.vals[i])
         \o (IF i < Len(d.keys) THEN <<",", SP>> ELSE <<>>)
         \o DumpsPairs(d, i + 1)

\* ------------------------------------------------------------ the backend
\* One call of the language model: get_llm() and chain.invoke() either raise
\* (network, authentication, timeout) or give a completion text.

Reply(text) == [fails |-> "none", text |-> text]
BackendError(where) == [fails |-> where, text |-> <<>>]
BackendErrors == {BackendError("get_llm"), BackendError("invoke")}

\* What a handler gives its caller: the value returned, whether an exception
\* left the handler, and the string it handed to json.loads (parsed is FALSE
\* when json.loads was not reached).
Returned(v, parsed, str) ==
    [result |-> v, raised |-> FALSE, parsed |-> parsed, json_str |-> str]
Raised(parsed, str) ==
    [result |-> JNull, raised |-> TRUE, parsed |-> parsed, json_str |-> str]

\* text.split(marker)[1].split('```')[0].strip()
FencedBody(text, marker) ==
    Strip(SplitHead(SplitSecond(text, marker), Fence))

\* parse_resume: the string handed to json.loads.
ParseResumeJsonStr(result_text) ==
    IF Contains(result_text, FenceJson)
    THEN FencedBody(result_text, FenceJson)
    ELSE IF Contains(result_text, Fence)
    THEN FencedBody(result_text, Fence)
    ELSE result_text

\* A variant of ParseResume that lets a backend failure leave the handler.
ParseResumeUncaught(out) ==
    IF out.fails # "none"
    THEN Raised(FALSE, <<>>)
    ELSE LET json_str == ParseResumeJsonStr(out.text)
             parsed_data == JsonLoads(json_str)
         IN  IF parsed_data.ok
             THEN Returned(parsed_data.val, TRUE, json_str)
             ELSE Returned(EmptyDict, TRUE, json_str)

\* parse_resume(resume_text), with the backend giving out.
ParseResume(out) ==
    IF out.fails # "none"
    THEN Returned(EmptyDict, FALSE, <<>>)               \* except Exception
    ELSE LET json_str == ParseResumeJsonStr(out.text)
             parsed_data == JsonLoads(json_str)
         IN  IF parsed_data.ok
             THEN Returned(parsed_data.val, TRUE, json_str)
             ELSE Returned(EmptyDict, TRUE, json_str)   \* except JSONDecodeError

\* analyze_job_description: the string handed to json.loads.
AnalyzeJsonStr(result_text) ==
    IF Contains(result_text, FenceJson)
    THEN FencedBody(result_text, FenceJson)
    ELSE IF Contains(result_text, Fence)
    THEN FencedBody(result_text, Fence)
    ELSE result_text

\* analyze_job_description(job_desc_text), with the backend giving out.
AnalyzeJobDescription(out) ==
    IF out.fails # "none"
    THEN Returned(EmptyDict, FALSE, <<>>)               \* except Exception
    ELSE LET json_str == AnalyzeJsonStr(out.text)
             parsed_data == JsonLoads(json_str)
         IN  IF parsed_data.ok
             THEN Returned(parsed_data.val, TRUE, json_str)
             ELSE Returned(EmptyDict, TRUE, json_str)   \* except JSONDecodeError

\* ------------------------------------------------------------ the database
\* The tables of db_manager.py that the workflow writes.  A user id is the
\* index of the user in users (an autoincrement key starting at 1); the rows
\* of a section are kept per user, in insertion order.

BasicKeys ==
    <<"name", "email", "phone", "address", "linkedin", "github", "website",
      "summary">>
ExperienceKeys ==
    <<"company", "title", "location", "start_date", "end_date", "description",
      "achievements">>
EducationKeys ==
    <<"institution", "degree", "field_of_study", "location", "start_date",
      "end_date", "gpa", "description">>
SkillKeys == <<"name", "category", "proficiency">>
SectionKeys ==
    <<"experiences", "educations", "skills", "certifications", "projects",
      "publications", "achievements">>

Range(seq) == {seq[i] : i \in 1..Len(seq)}
K(word) == <<word>>
EmptyStr == JStr(<<>>)
EmptyList == JList(<<>>)

\* A dict with the keys of ks, in that order, and the values of row.
DictOf(ks, row) ==
    JDict([i \in 1..Len(ks) |-> K(ks[i])], [i \in 1..Len(ks) |-> row[ks[i]]])

EmptyDb == [users |-> <<>>, experiences |-> <<>>, educations |-> <<>>,
            skills |-> <<>>]

\* session.query(User).filter(User.id == user_id).first() finds a row.
UserExists(d, user_id) == user_id \in 1..Len(d.users)

\* A String or Text column takes a str or None as it is and a number as its
\* text (the TEXT affinity of SQLite); binding a list or a dict raises.
IsColumnValue(v) == IsStr(v) \/ IsNull(v) \/ IsNum(v) \/ IsBool(v)

ColumnStore(v) ==
    IF IsNum(v) THEN JStr(DumpsNum(v.num))
    ELSE IF IsBool(v) THEN JStr(<<"1">>)
    ELSE v

\* "\n".join(xs), for a list of str.
RECURSIVE JoinLines(_)
JoinLines(xs) ==
    IF xs = <<>> THEN <<>>
    ELSE IF Len(xs) = 1 THEN xs[1].str
    ELSE xs[1].str \o <<NL>> \o JoinLines(Tail(xs))

\* s.split("\n"): the list of the str between the line feeds.
RECURSIVE SplitLines(_)
SplitLines(s) ==
    LET i == Find(s, <<NL>>)
    IN  IF i = 0 THEN <<JStr(s)>>
        ELSE <<JStr(SubSeq(s, 1, i - 1))>>
             \o SplitLines(SubSeq(s, i + 1, Len(s)))

\* The achievements column of an experience: a list is joined with line
\* feeds, anything else is stored as it is.
AchievementsColumn(exp_data) ==
    LET a == Get(exp_data, K("achievements"), EmptyList)
    IN  IF IsList(a) THEN JStr(JoinLines(a.list)) ELSE ColumnStore(a)

\* Experience(...), Education(...), Skill(...): one row from one dict.
ExperienceRow(exp_data) ==
    [k \in Range(ExperienceKeys) |->
        IF k = "achievements" THEN AchievementsColumn(exp_data)
        ELSE ColumnStore(Get(exp_data, K(k), EmptyStr))]
EducationRow(edu_data) ==
    [k \in Range(EducationKeys) |-> ColumnStore(Get(edu_data, K(k), EmptyStr))]
SkillRow(skill_data) ==
    [k \in Range(SkillKeys) |-> ColumnStore(Get(skill_data, K(k), EmptyStr))]

\* Whether building and flushing the rows of one section raises: the section
\* is not a list of dicts, an achievements list holds something that is not
\* a str, or a column is given a list or a dict.
RowRaises(keys, item) ==
    \/ ~IsDict(item)
    \/ \E i \in 1..Len(keys) :
          LET v == Get(item, K(keys[i]), EmptyStr)
          IN  IF keys[i] = "achievements" /\ IsList(v)
              THEN \E j \in 1..Len(v.list) : ~IsStr(v.list[j])
              ELSE ~IsColumnValue(v)
SectionRaises(resume_data, section, keys) ==
    /\ HasKey(resume_data, K(section))
    /\ LET xs == Get(resume_data, K(section), EmptyList)
       IN  \/ ~IsList(xs)
           \/ \E i \in 1..Len(xs.list) : RowRaises(keys, xs.list[i])

\* The rows of one section after the update: replaced when resume_data has
\* the key, left alone when it has not.
SectionRows(resume_data, section, old) ==
    IF HasKey(resume_data, K(section))
    THEN LET xs == Get(resume_data, K(section), EmptyList).list
         IN  [i \in 1..Len(xs) |->
                 IF section = "experiences" THEN ExperienceRow(xs[i])
                 ELSE IF section = "educations" THEN EducationRow(xs[i])
                 ELSE SkillRow(xs[i])]
    ELSE old

\* create_or_update_user(resume_data), run on database d with
\* st.session_state.user_id = user_id.  fault names the commit that the
\* database refuses, if any.  Gives the database and the session user_id
\* after the call, and the value returned (0 for None).
CreateOrUpdateUser(d, user_id, resume_data, fault) ==
    LET found == user_id # 0 /\ UserExists(d, user_id)
        id == IF found THEN user_id ELSE Len(d.users) + 1
        basic_info ==
            IF IsDict(resume_data)
            THEN Get(resume_data, K("basic_info"), EmptyDict)
            ELSE JNull
        user_row ==
            [k \in Range(BasicKeys) |->
                ColumnStore(Get(basic_info, K(k), EmptyStr))]
        \* .get on something that is not a dict, or the first commit fails:
        \* nothing is written.
        raises_first ==
            \/ ~IsDict(resume_data)
            \/ ~IsDict(basic_info)
            \/ \E k \in Range(BasicKeys) :
                  ~IsColumnValue(Get(basic_info, K(k), EmptyStr))
            \/ fault = "first_commit"
        \* The database after the first commit: the basic info is written.
        d1 == IF found
              THEN [d EXCEPT !.users[id] = user_row]
              ELSE [users |-> Append(d.users, user_row),
                    experiences |-> Append(d.experiences, <<>>),
                    educations |-> Append(d.educations, <<>>),
                    skills |-> Append(d.skills, <<>>)]
        raises_second ==
            \/ SectionRaises(resume_data, "experiences", ExperienceKeys)
            \/ SectionRaises(resume_data, "educations", EducationKeys)
            \/ SectionRaises(resume_data, "skills", SkillKeys)
            \/ fault = "final_commit"
        \* The database after the final commit: each section that
        \* resume_data names is replaced.
        d2 == [d1 EXCEPT
                 !.experiences[id] =
                     SectionRows(resume_data, "experiences", @),
                 !.educations[id] =
                     SectionRows(resume_data, "educations", @),
                 !.skills[id] =
                     SectionRows(resume_data, "skills", @)]
    IN  IF raises_first
        THEN [db |-> d, user_id |-> user_id, ret |-> 0]     \* rollback
        ELSE IF raises_second
        THEN [db |-> d1, user_id |-> id, ret |-> 0]         \* rollback
        ELSE [db |-> d2, user_id |-> id, ret |-> id]

\* ------------------------------------------------------------ optimize

\* exp.achievements.split("\n") if exp.achievements else []
AchievementsList(column) ==
    IF IsStr(column) /\ column.str # <<>>
    THEN JList(SplitLines(column.str))
    ELSE EmptyList

ExperienceDict(exp) ==
    DictOf(ExperienceKeys,
           [exp EXCEPT !["achievements"] = AchievementsList(@)])

\* resume_data as optimize_resume_for_job prepares it from the rows of the
\* user: the basic info, the experiences, the educations and the skills;
\* the other four sections stay empty.
ResumeDataOf(d, user_id) ==
    LET exps == d.experiences[user_id]
        edus == d.educations[user_id]
        skls == d.skills[user_id]
        row ==
            [k \in {"basic_info"} \cup Range(SectionKeys) |->
                IF k = "basic_info" THEN DictOf(BasicKeys, d.users[user_id])
                ELSE IF k = "experiences"
                THEN JList([i \in 1..Len(exps) |-> ExperienceDict(exps[i])])
                ELSE IF k = "educations"
                THEN JList([i \in 1..Len(edus) |->
                               DictOf(EducationKeys, edus[i])])
                ELSE IF k = "skills"
                THEN JList([i \in 1..Len(skls) |-> DictOf(SkillKeys, skls[i])])
                ELSE EmptyList]
    IN  DictOf(<<"basic_info">> \o SectionKeys, row)

\* optimize_resume_for_job: the string handed to json.loads.
OptimizeJsonStr(result_text) ==
    IF Contains(result_text, FenceJson)
    THEN FencedBody(result_text, FenceJson)
    ELSE IF Contains(result_text, Fence)
    THEN FencedBody(result_text, Fence)
    ELSE result_text

\* What optimize_resume_for_job gives its caller, with the job analysis it
\* used, whether it ran analyze_job_description to get it, and the
\* resume_data it prepared (None when the user was not found).
Optimized(r, analysis, analyzed, resume_data) ==
    [result |-> r.result, raised |-> r.raised, parsed |-> r.parsed,
     json_str |-> r.json_str, job_analysis |-> analysis,
     analyzed |-> analyzed, resume_data |-> resume_data]

\* What optimize_resume_for_job does on the way, in the order of the code:
\* the call of analyze_job_description where it is made, then chain.invoke
\* of the optimisation prompt unless get_llm has raised.
OptimizeSteps(d, user_id, job_analysis, out) ==
    IF ~UserExists(d, user_id) THEN <<>>
    ELSE (IF ~Truthy(job_analysis) THEN <<"analyze_job_description">>
          ELSE <<>>)
         \o (IF out.fails = "get_llm" THEN <<>> ELSE <<"invoke">>)

\* A variant of OptimizeResumeForJob that runs the job extraction whether or
\* not a job analysis is given.
OptimizeAlwaysAnalyzes(d, user_id, job_analysis, out_job, out) ==
    IF ~UserExists(d, user_id)
    THEN Optimized(Returned(EmptyDict, FALSE, <<>>), job_analysis, FALSE,
                   JNull)
    ELSE
        LET resume_data == ResumeDataOf(d, user_id)
            json_str == OptimizeJsonStr(out.text)
            optimized_data == JsonLoads(json_str)
            r == IF out.fails # "none"
                 THEN Returned(EmptyDict, FALSE, <<>>)
                 ELSE IF optimized_data.ok
                 THEN Returned(optimized_data.val, TRUE, json_str)
                 ELSE Returned(resume_data, TRUE, json_str)
        IN  Optimized(r, AnalyzeJobDescription(out_job).result, TRUE,
                      resume_data)

\* optimize_resume_for_job(user_id, job_description, job_analysis) on
\* database d; out_job is what the backend gives the job extraction, if it
\* is run, and out is what it gives the optimisation prompt.
OptimizeResumeForJob(d, user_id, job_analysis, out_job, out) ==
    IF ~UserExists(d, user_id)
    THEN Optimized(Returned(EmptyDict, FALSE, <<>>), job_analysis, FALSE,
                   JNull)
    ELSE
        LET analyzed == ~Truthy(job_analysis)
            analysis == IF analyzed
                        THEN AnalyzeJobDescription(out_job).result
                        ELSE job_analysis
            resume_data == ResumeDataOf(d, user_id)
            json_str == OptimizeJsonStr(out.text)
            optimized_data == JsonLoads(json_str)
            r == IF out.fails # "none"
                 THEN Returned(EmptyDict, FALSE, <<>>)     \* except Exception
                 ELSE IF optimized_data.ok
                 THEN Returned(optimized_data.val, TRUE, json_str)
                 ELSE Returned(resume_data, TRUE, json_str)
                                                  \* except JSONDecodeError
        IN  Optimized(r, analysis, analyzed, resume_data)

\* ------------------------------------------------------------ skill match
\* render_job_matching_page, the match of the resume skills with the
\* skills of the job.

\* A variant of AllSkills that puts the preferred skills first.
AllSkillsPreferredFirst(job_analysis) ==
    Get(job_analysis, K("preferred_skills"), EmptyList).list
    \o Get(job_analysis, K("required_skills"), EmptyList).list

\* required_skills + preferred_skills
AllSkills(job_analysis) ==
    Get(job_analysis, K("required_skills"), EmptyList).list
    \o Get(job_analysis, K("preferred_skills"), EmptyList).list

\* [skill.get("name", "") for skill in resume_data.get("skills", [])]
ResumeSkills(resume_data) ==
    LET skills == Get(resume_data, K("skills"), EmptyList).list
    IN  [i \in 1..Len(skills) |-> Get(skills[i], K("name"), EmptyStr)]

\* job_skill.lower() in skill.lower()
SkillIn(job_skill, skill) == Contains(Lower(skill.str), Lower(job_skill.str))

\* A variant of MatchingSkills that tests the containment the other way.
MatchingSkillsReversed(resume_skills, all_skills) ==
    SelectSeq(resume_skills,
              LAMBDA skill :
                  \E j \in 1..Len(all_skills) : SkillIn(skill, all_skills[j]))

\* [skill for skill in resume_skills
\*  if any(job_skill.lower() in skill.lower() for job_skill in all_skills)]
MatchingSkills(resume_skills, all_skills) ==
    SelectSeq(resume_skills,
              LAMBDA skill :
                  \E j \in 1..Len(all_skills) : SkillIn(all_skills[j], skill))

\* A variant of MissingSkills that compares without lowering the case.
MissingSkillsCaseSensitive(resume_skills, all_skills) ==
    SelectSeq(all_skills,
              LAMBDA skill :
                  ~\E i \in 1..Len(resume_skills) :
                      Contains(resume_skills[i].str, skill.str))

\* [skill for skill in all_skills
\*  if not any(skill.lower() in resume_skill.lower()
\*             for resume_skill in resume_skills)]
MissingSkills(resume_skills, all_skills) ==
    SelectSeq(all_skills,
              LAMBDA skill :
                  ~\E i \in 1..Len(resume_skills) :
                      SkillIn(skill, resume_skills[i]))

\* Whether the match raises: a .get on something that is not a dict, a list
\* that is not one, or the .lower() of a name that is not a str (no name is
\* lowered while either list is empty).
MatchRaises(resume_data, job_analysis) ==
    \/ ~IsDict(job_analysis)
    \/ ~IsList(Get(job_analysis, K("required_skills"), EmptyList))
    \/ ~IsList(Get(job_analysis, K("preferred_skills"), EmptyList))
    \/ ~IsDict(resume_data)
    \/ ~IsList(Get(resume_data, K("skills"), EmptyList))
    \/ \E x \in Range(Get(resume_data, K("skills"), EmptyList).list) :
          ~IsDict(x)
    \/ /\ ResumeSkills(resume_data) # <<>>
       /\ AllSkills(job_analysis) # <<>>
       /\ \E x \in Range(ResumeSkills(resume_data))
                   \cup Range(AllSkills(job_analysis)) : ~IsStr(x)

\* ------------------------------------------------------------ the state

VARIABLES
    session,   \* st.session_state of the one browser session
    db,        \* the rows of the database
    call,      \* the call of ai_manager made by the last step, as its
               \* caller sees it
    report,    \* the match report the last step displayed
    stored,    \* per user id, the resume_data of the last
               \* create_or_update_user that returned that id
    selection, \* MODEL_PROVIDER, LLM_MODEL and OLLAMA_MODEL of ai_manager
    uploads    \* the files of data/uploads, and how far the upload page
               \* of each of two browser sessions has run

vars == <<session, db, call, report, stored, selection, uploads>>


\* ------------------------------------------------------------ bounds

MaxUsers == 1          \* users the database holds
MaxLen == 3            \* length of the arbitrary completion texts
MaxResumeSkills == 2   \* skills of a resume
MaxRequired == 2       \* required skills of a job
MaxPreferred == 1      \* preferred skills of a job
MaxAchievements == 2   \* achievements of an experience
MaxContents == 2       \* different file contents that are uploaded
MaxChats == 2          \* chat submissions in a session

SeqsUpTo(S, n) == UNION {[1..k -> S] : k \in 0..n}

\* ------------------------------------------------------------ process
\* What all the browser sessions of the process share besides the database.

\* The module-level selection of ai_manager when no variable of the
\* environment is set.
DefaultSelection ==
    [MODEL_PROVIDER |-> "openai", LLM_MODEL |-> "gpt-4-turbo",
     OLLAMA_MODEL |-> "mistral"]

\* str.lower, on the provider names that are used.
LowerName(provider) ==
    CASE provider = "OpenAI" -> "openai"
      [] provider = "OLLAMA" -> "ollama"
      [] OTHER -> provider

\* The class get_llm constructs for the selection sel.
Backend(sel) ==
    IF LowerName(sel.MODEL_PROVIDER) = "ollama" THEN "ollama" ELSE "openai"

\* get_llm raises: the constructor of the class it chooses does, broken
\* being the classes whose constructor raises at this time.
GetLlmRaises(sel, broken) == Backend(sel) \in broken

\* set_model_provider(provider, model) from the selection sel; model "" is
\* no model given.  Every exception is caught inside, so it never raises.
SetModelProvider(sel, provider, model, broken) ==
    IF LowerName(provider) \notin {"openai", "ollama"}
    THEN [ret |-> FALSE, raised |-> FALSE, selection |-> sel]
    ELSE LET s1 == [sel EXCEPT !.MODEL_PROVIDER = LowerName(provider)]
             s2 == IF model = "" THEN s1
                   ELSE IF s1.MODEL_PROVIDER = "openai"
                        THEN [s1 EXCEPT !.LLM_MODEL = model]
                        ELSE [s1 EXCEPT !.OLLAMA_MODEL = model]
         IN  [ret |-> ~GetLlmRaises(s2, broken), raised |-> FALSE,
              selection |-> s2]

\* initialize_model, the environment holding MODEL_PROVIDER = env_provider,
\* LLM_MODEL = env_llm and OLLAMA_MODEL = env_ollama.  The value
\* set_model_provider returns is not looked at.
InitializeModel(sel, env_provider, env_llm, env_ollama, broken) ==
    LET model == IF env_provider = "openai" THEN env_llm ELSE env_ollama
        r == SetModelProvider(sel, env_provider, model, broken)
        f == SetModelProvider(r.selection, "openai", "gpt-4-turbo", broken)
    IN  IF ~r.raised
        THEN [ret |-> TRUE, selection |-> r.selection, model |-> model]
        ELSE IF env_provider # "openai"
             THEN [ret |-> FALSE, selection |-> f.selection, model |-> model]
             ELSE [ret |-> FALSE, selection |-> r.selection, model |-> model]

\* The two browser sessions that upload, and the file names they use.
Sessions == {1, 2}
FileNames == {"cv.txt", "me.txt"}

\* No file in data/uploads, and no session has a file in its uploader.
\* A content is a number; 0 is the empty text.
NoUploads ==
    [disk |-> [n \in FileNames |-> 0],
     run |-> [u \in Sessions |->
                 [pc |-> "idle", name |-> "cv.txt", content |-> 0,
                  resume_text |-> 0, parsed |-> 0]]]

\* ------------------------------------------------------------ session

\* init_session_state, and the values Clear All Data writes back.
InitialSession ==
    [user_id |-> 0, chat_history |-> <<>>, resume_data |-> EmptyDict,
     job_description |-> <<>>, job_analysis |-> EmptyDict,
     optimized_resume |-> EmptyDict, chat_initialized |-> FALSE]

NoCall ==
    [op |-> "none", user_id |-> 0, backend |-> Reply(<<>>),
     result |-> JNull, raised |-> FALSE, parsed |-> FALSE, json_str |-> <<>>,
     job_analysis |-> JNull, analyzed |-> FALSE, resume_data |-> JNull,
     again |-> FALSE, prev |-> JNull, supplied |-> JNull, steps |-> <<>>,
     saved |-> 0, error |-> FALSE, provider |-> "", model |-> "",
     broken |-> {}, before |-> DefaultSelection]

\* The record of one call of parse_resume or analyze_job_description.
ExtractCall(op, out, r) ==
    [NoCall EXCEPT !.op = op, !.backend = out, !.result = r.result,
                   !.raised = r.raised, !.parsed = r.parsed,
                   !.json_str = r.json_str]

NoReport ==
    [shown |-> FALSE, raised |-> FALSE, resume_skills |-> <<>>,
     required |-> <<>>, preferred |-> <<>>, matching |-> <<>>,
     missing |-> <<>>]

NothingStored == [id \in 1..MaxUsers |-> JNull]

\* ------------------------------------------------------------ inputs
\* The resumes, the job analyses and the completion texts the steps draw
\* from.

Word(w) == JStr(<<w>>)

\* A dict with the keys of ks; the value of key k is vals[k] where vals
\* names k, and the empty string elsewhere.
Filled(ks, vals) ==
    DictOf(ks, [k \in Range(ks) |->
                   IF k \in DOMAIN vals THEN vals[k] ELSE EmptyStr])

ExperienceOf(company, achievements) ==
    Filled(ExperienceKeys, [company |-> Word(company),
                            achievements |-> JList(achievements)])
SkillOf(name) == Filled(SkillKeys, [name |-> name])
CertificationOf(name) ==
    Filled(<<"name", "issuer", "date", "description">>, [name |-> Word(name)])

\* A resume in the schema parse_resume asks the backend for.
ResumeOf(name, experiences, skills, certifications) ==
    DictOf(<<"basic_info">> \o SectionKeys,
           [k \in {"basic_info"} \cup Range(SectionKeys) |->
               IF k = "basic_info"
               THEN Filled(BasicKeys, [name |-> Word(name)])
               ELSE IF k = "experiences" THEN JList(experiences)
               ELSE IF k = "skills" THEN JList(skills)
               ELSE IF k = "certifications" THEN JList(certifications)
               ELSE EmptyList])

SkillNames == {<<>>, <<"a">>, <<"A", "B">>, <<"c">>}
SkillValues == {JStr(n) : n \in SkillNames}

ResumeWithSkills(names) ==
    ResumeOf("Ann", <<>>, [i \in 1..Len(names) |-> SkillOf(names[i])], <<>>)

ResumeInputs ==
    { ResumeOf("Ann", <<>>, <<>>, <<>>),
      ResumeOf("Bob",
               <<ExperienceOf("Acme", <<Word("led"), Word("built")>>),
                 ExperienceOf("Zeta", <<>>)>>,
               <<SkillOf(Word("a"))>>, <<>>),
      ResumeOf("Cy", <<>>, <<SkillOf(Word("b"))>>,
               <<CertificationOf("AWS")>>) }

\* A job analysis in the schema analyze_job_description asks for.
JobOf(required, preferred) ==
    Filled(<<"job_title", "company", "required_skills", "preferred_skills",
             "required_experience", "required_education",
             "job_responsibilities", "keywords">>,
           [job_title |-> Word("Engineer"),
            required_skills |-> JList(required),
            preferred_skills |-> JList(preferred),
            job_responsibilities |-> EmptyList,
            keywords |-> EmptyList])

JobInputs ==
    {JobOf(r, p) : r \in SeqsUpTo(SkillValues, MaxRequired),
                   p \in SeqsUpTo(SkillValues, MaxPreferred)}

\* The completion with v in a json fence, as the prompts show it.
FencedJson(v) == FenceJson \o <<NL>> \o Dumps(v) \o <<NL>> \o Fence

\* Texts of JSON objects, written out.
Obj(k, value_text) == <<"{", QT, k, QT, ":">> \o value_text \o <<"}">>
Quoted(chars) == <<QT>> \o chars \o <<QT>>

WellFormedObjects ==
    { <<"{", "}">>,
      Obj("a", <<"1">>),
      Obj("a", Quoted(<<"}", "{">>)),
      Obj("a", Quoted(<<BT, BT>>)),
      Obj("a", Quoted(<<BT, BT, BT>>)),
      Obj("a", Quoted(<<ESC_BT, ESC_BT, ESC_BT>>)),
      Obj("a", Quoted(<<"x", ESC_NL, WJSON>>)),
      Obj("a", <<"[", "1", ",", SP>> \o Obj("b", <<"null">>) \o <<"]">>),
      <<"{", SP, QT, "a", QT, SP, ":", SP, "true", SP, ",", NL,
        QT, "b", QT, ":", Quoted(<<"x", SP, "x">>), "}">>,
      <<"{", QT, "a", QT, ":", "1", ",", QT, "a", QT, ":", "1", "1", "}">> }

OtherJson ==
    { <<"[", "]">>, <<"[", "1", "]">>, <<"1">>, Quoted(<<"a">>), <<"true">>,
      <<"null">>, <<"[">> \o Obj("a", <<"1">>) \o <<"]">> }

Malformed ==
    { <<"{", "x">>,
      Obj("a", <<>>),
      <<"{", QT, "a", QT, ":", "1", ",", "}">>,
      Obj("a", Quoted(<<FF>>)),
      Obj("a", <<"1">>) \o <<"}">>,
      <<"{", QT, "a">> }

Bodies == WellFormedObjects \cup OtherJson \cup Malformed

\* What may stand before the body, between the fences and the body, and
\* after the closing fence.
Openings == {<<>>, FenceJson, Fence, <<"x", SP>> \o FenceJson,
             Fence \o <<"x">> \o Fence \o <<SP>> \o FenceJson}
Paddings == {<<<<>>, <<>>>>, <<<<NL>>, <<NL>>>>, <<<<FF>>, <<>>>>,
             <<<<SP>>, <<SP, FF>>>>}
Closings == {<<>>, Fence}
Proses == {<<>>, <<SP, "x">>, <<BT>>, <<BT, WJSON>>,
           <<NL>> \o FenceJson \o <<"1">> \o Fence}

StructuredTexts ==
    { o \o p[1] \o b \o p[2] \o c \o t :
        o \in Openings, p \in Paddings, b \in Bodies, c \in Closings,
        t \in Proses }

TextChars == {BT, WJSON, SP, FF, "{", "}", "1", QT}

\* The completions of the extraction checks: the structured texts and every
\* text of at most MaxLen characters.
CompletionTexts == StructuredTexts \cup SeqsUpTo(TextChars, MaxLen)

ExtractOutcomes == BackendErrors \cup {Reply(t) : t \in CompletionTexts}

SampleJob == JobOf(<<Word("a")>>, <<>>)

\* A resume that has its basic_info and none of the section keys.
BasicInfoOnly ==
    JDict(<<K("basic_info")>>, <<Filled(BasicKeys, [name |-> Word("Eve")])>>)

UploadOutcomes ==
    {BackendError("invoke"), Reply(<<"{", "x">>), Reply(<<"[", "1", "]">>),
     Reply(Dumps(BasicInfoOnly))}
    \cup {Reply(FencedJson(r)) : r \in ResumeInputs}

\* Resume payloads that the backend gives back for the optimisation
\* prompt: the experiences of Bob in the other order, and a resume with a
\* run of three backticks in an achievement.
ReorderedPayload ==
    ResumeOf("Bob",
             <<ExperienceOf("Zeta", <<>>),
               ExperienceOf("Acme", <<Word("built"), Word("led")>>)>>,
             <<SkillOf(Word("a"))>>, <<>>)
BacktickPayload ==
    ResumeOf("Bob", <<ExperienceOf("Acme", <<JStr(Fence)>>)>>, <<>>, <<>>)

OptimizeOutcomes ==
    BackendErrors
    \cup {Reply(<<"x">>), Reply(FenceJson \o <<"{", "x">> \o Fence),
          Reply(Dumps(ResumeOf("Ann", <<>>, <<>>, <<>>))),
          Reply(Dumps(ReorderedPayload)), Reply(Dumps(BacktickPayload)),
          Reply(<<"[", "]">>)}

\* Job analyses outside the schema, as a JSON completion can hold them: the
\* skill keys missing, a skill list that is null, a skill name that is
\* null.
IrregularJobs ==
    { JDict(<<K("job_title")>>, <<Word("Engineer")>>),
      JDict(<<K("required_skills"), K("preferred_skills")>>,
            <<JNull, EmptyList>>),
      JobOf(<<JNull>>, <<>>) }

MatchOutcomes ==
    {BackendError("invoke"), Reply(<<"{", "x">>)}
    \cup {Reply(FencedJson(j)) : j \in JobInputs \cup IrregularJobs}

Faults == {"none", "first_commit", "final_commit"}

\* ------------------------------------------------------------ steps

\* A caller calls parse_resume and the backend gives out.
ParseResumeCall(out) ==
    /\ UNCHANGED <<selection, uploads>>
    /\ \E r \in {ParseResume(out)} :
           call' = ExtractCall("parse_resume", out, r)
    /\ UNCHANGED <<session, db, report, stored>>

\* A caller calls analyze_job_description and the backend gives out.
AnalyzeJobDescriptionCall(out) ==
    /\ UNCHANGED <<selection, uploads>>
    /\ \E r \in {AnalyzeJobDescription(out)} :
           call' = ExtractCall("analyze_job_description", out, r)
    /\ UNCHANGED <<session, db, report, stored>>

\* The caller hands the mapping it got back, serialized by json.dumps, to
\* the same extraction as the next completion.
ReapplyToSerialization ==
    /\ UNCHANGED <<selection, uploads>>
    /\ call.op \in {"parse_resume", "analyze_job_description"}
    /\ ~call.again
    /\ IsDict(call.result)
    /\ \E out \in {Reply(Dumps(call.result))} :
       \E r \in {IF call.op = "parse_resume" THEN ParseResume(out)
                 ELSE AnalyzeJobDescription(out)} :
           call' = [ExtractCall(call.op, out, r) EXCEPT
                       !.again = TRUE, !.prev = call.result]
    /\ UNCHANGED <<session, db, report, stored>>

\* A caller calls optimize_resume_for_job(user_id, job_description,
\* job_analysis).
OptimizeCall(user_id, job_analysis, out_job, out) ==
    /\ UNCHANGED <<selection, uploads>>
    /\ \E r \in {OptimizeResumeForJob(db, user_id, job_analysis, out_job,
                                       out)} :
           call' = [NoCall EXCEPT
                       !.op = "optimize_resume_for_job",
                       !.user_id = user_id, !.backend = out,
                       !.result = r.result, !.raised = r.raised,
                       !.parsed = r.parsed, !.json_str = r.json_str,
                       !.job_analysis = r.job_analysis,
                       !.analyzed = r.analyzed,
                       !.resume_data = r.resume_data,
                       !.supplied = job_analysis,
                       !.steps = OptimizeSteps(db, user_id, job_analysis,
                                               out)]
    /\ UNCHANGED <<session, db, report, stored>>

\* The session and the database after
\*     st.session_state.resume_data = resume_data
\*     create_or_update_user(resume_data)
StoreResumeData(resume_data, fault, c) ==
    \E cu \in {CreateOrUpdateUser(db, session.user_id, resume_data, fault)} :
        /\ session' = [session EXCEPT !.resume_data = resume_data,
                                      !.user_id = cu.user_id]
        /\ db' = cu.db
        /\ call' = [c EXCEPT !.saved = cu.ret]
        /\ stored' = IF cu.ret = 0 THEN stored
                     ELSE [stored EXCEPT ![cu.ret] = resume_data]

\* A variant of ParsedOk that takes every mapping for a parsed resume.
ParsedAlways(resume_data) == IsDict(resume_data)

\* if resume_data: of the upload page.
ParsedOk(resume_data) == Truthy(resume_data)

\* The calls one run of the upload page makes, in the order of the code,
\* when the run ends in stage.
UploadSteps(stage) ==
    IF stage = "save_failed" THEN <<"save_uploaded_file">>
    ELSE IF stage = "no_text"
    THEN <<"save_uploaded_file", "extract_text_from_file">>
    ELSE IF stage = "parse_failed"
    THEN <<"save_uploaded_file", "extract_text_from_file", "parse_resume">>
    ELSE <<"save_uploaded_file", "extract_text_from_file", "parse_resume",
           "create_or_update_user">>

\* render_resume_upload_page with a file uploaded: the file is saved, its
\* text extracted and parsed, and a parsed resume is stored; the database
\* may refuse a commit of the store.  Each stage that fails ends the run
\* with st.error.
UploadResume(stage, out) ==
    /\ UNCHANGED <<selection, uploads>>
    /\ session.user_id # 0 \/ Len(db.users) < MaxUsers
    /\ IF stage # "parse"
       THEN /\ UNCHANGED <<session, db, stored>>
            /\ call' = [NoCall EXCEPT !.steps = UploadSteps(stage),
                                      !.error = TRUE]
       ELSE \E r \in {ParseResume(out)} :
                IF ParsedOk(r.result)
                THEN \E fault \in Faults :
                         StoreResumeData(
                             r.result, fault,
                             [ExtractCall("parse_resume", out, r) EXCEPT
                                 !.steps = UploadSteps("stored")])
                ELSE /\ call' = [ExtractCall("parse_resume", out, r) EXCEPT
                                    !.steps = UploadSteps("parse_failed"),
                                    !.error = TRUE]
                     /\ UNCHANGED <<session, db, stored>>
    /\ report' = NoReport

\* render_resume_upload_page, Save Resume Data of the manual form.
ManualEntry(name, summary, fault) ==
    /\ UNCHANGED <<selection, uploads>>
    /\ session.user_id # 0 \/ Len(db.users) < MaxUsers
    /\ StoreResumeData(
           JDict(<<K("basic_info"), K("experiences"), K("educations"),
                   K("skills")>>,
                 <<JDict(<<K("name"), K("email"), K("phone"), K("summary")>>,
                         <<JStr(name), EmptyStr, EmptyStr, JStr(summary)>>),
                   EmptyList, EmptyList, EmptyList>>),
           fault, [NoCall EXCEPT !.steps = <<"create_or_update_user">>])
    /\ report' = NoReport

\* A variant of Cleared that leaves the job analysis in the session.
ClearedKeepsJobAnalysis(s) ==
    [s EXCEPT !.user_id = 0, !.chat_history = <<>>,
              !.resume_data = EmptyDict, !.job_description = <<>>,
              !.optimized_resume = EmptyDict]

\* The session after the six assignments of Clear All Data.
Cleared(s) ==
    [s EXCEPT !.user_id = 0, !.chat_history = <<>>,
              !.resume_data = EmptyDict, !.job_description = <<>>,
              !.job_analysis = EmptyDict, !.optimized_resume = EmptyDict]

\* A variant of ResumeAvailable that lets every page run.
AlwaysAvailable(s) == IsDict(s.resume_data)

\* The pages that work on the resume return at once, with a warning, when
\* st.session_state.resume_data is empty.
ResumeAvailable(s) == Truthy(s.resume_data)

\* render_ui, Clear All Data.
ClearAllData ==
    /\ UNCHANGED <<selection, uploads>>
    /\ session' = Cleared(session)
    /\ call' = NoCall
    /\ report' = NoReport
    /\ UNCHANGED <<db, stored>>

\* render_job_matching_page, Analyze Job Description, with job_description
\* in the text area.  The inner button Optimize Resume for This Job reads
\* False in the run of this click.
AnalyzeJobClick(job_description, out) ==
    /\ UNCHANGED <<selection, uploads>>
    /\ ResumeAvailable(session)
    /\ IF job_description = <<>>
       THEN UNCHANGED session /\ call' = NoCall /\ report' = NoReport
       ELSE \E r \in {AnalyzeJobDescription(out)} :
            LET job_analysis == r.result
                raises == MatchRaises(session.resume_data, job_analysis)
                resume_skills == ResumeSkills(session.resume_data)
                all_skills == AllSkills(job_analysis)
            IN  /\ call' = ExtractCall("analyze_job_description", out, r)
                /\ session' =
                       [session EXCEPT
                           !.job_description = job_description,
                           !.job_analysis =
                               IF Truthy(job_analysis) THEN job_analysis
                               ELSE @]
                /\ report' =
                       IF ~Truthy(job_analysis) THEN NoReport
                       ELSE IF raises THEN [NoReport EXCEPT !.raised = TRUE]
                       ELSE [shown |-> TRUE, raised |-> FALSE,
                             resume_skills |-> resume_skills,
                             required |->
                                 Get(job_analysis, K("required_skills"),
                                     EmptyList).list,
                             preferred |->
                                 Get(job_analysis, K("preferred_skills"),
                                     EmptyList).list,
                             matching |->
                                 MatchingSkills(resume_skills, all_skills),
                             missing |->
                                 MissingSkills(resume_skills, all_skills)]
    /\ UNCHANGED <<db, stored>>

\* render_job_matching_page in the run that a click on Optimize Resume for
\* This Job starts.  The button was drawn by the run before; in this run
\* Analyze Job Description reads False, so the block that holds the inner
\* button is not run and optimize_resume_for_job is not called.
OptimizeClick ==
    /\ UNCHANGED <<selection, uploads>>
    /\ ResumeAvailable(session)
    /\ report.shown
    /\ call' = NoCall
    /\ report' = NoReport
    /\ UNCHANGED <<session, db, stored>>

\* A variant of AfterOptimize that takes the optimized resume for the
\* resume of the user.
AfterOptimizeReplacesResume(s, optimized_resume) ==
    IF Truthy(optimized_resume)
    THEN [s EXCEPT !.resume_data = optimized_resume,
                   !.optimized_resume = optimized_resume]
    ELSE s

\* if optimized_resume: st.session_state.optimized_resume = optimized_resume
AfterOptimize(s, optimized_resume) ==
    IF Truthy(optimized_resume)
    THEN [s EXCEPT !.optimized_resume = optimized_resume]
    ELSE s

\* The body of the button Optimize Resume for This Job, job_analysis being
\* the analysis the page has just made: optimize_resume_for_job is called
\* for the user of the session, and what it returns is kept if it is not
\* empty.
OptimizeBlock(job_analysis, out) ==
    /\ UNCHANGED <<selection, uploads>>
    /\ ResumeAvailable(session)
    /\ \E r \in {OptimizeResumeForJob(db, session.user_id, job_analysis,
                                       BackendError("invoke"), out)} :
           /\ call' = [NoCall EXCEPT
                          !.op = "optimize_resume_for_job",
                          !.user_id = session.user_id, !.backend = out,
                          !.result = r.result, !.raised = r.raised,
                          !.parsed = r.parsed, !.json_str = r.json_str,
                          !.job_analysis = r.job_analysis,
                          !.analyzed = r.analyzed,
                          !.resume_data = r.resume_data,
                          !.supplied = job_analysis,
                          !.steps = OptimizeSteps(db, session.user_id,
                                                  job_analysis, out)]
           /\ session' = AfterOptimize(session, r.result)
    /\ UNCHANGED <<db, report, stored>>

\* A variant of Appended that drops the answer.
AppendedUserOnly(chat_history, prompt, ai_response) ==
    chat_history \o <<[role |-> "user", content |-> prompt]>>

\* The two appends of a chat submission: the message of the user, then what
\* the assistant answered.
Appended(chat_history, prompt, ai_response) ==
    chat_history \o <<[role |-> "user", content |-> prompt],
                      [role |-> "assistant", content |-> ai_response]>>

\* What the assistant says when the backend fails.
ChatErrorText == <<"error">>

\* render_resume_chat_page with prompt in the chat input.  init_fails: the
\* get_llm of the first run of the page raises, and the page returns before
\* the input is read.  Else the user message is appended, then the answer
\* of the backend, or the error text when the backend fails.
ChatSubmit(prompt, init_fails, out) ==
    /\ UNCHANGED <<selection, uploads>>
    /\ ResumeAvailable(session)
    /\ Len(session.chat_history) < 2 * MaxChats
    /\ IF ~session.chat_initialized /\ init_fails
       THEN /\ UNCHANGED session
            /\ call' = [NoCall EXCEPT !.op = "chat", !.error = TRUE]
       ELSE LET ai_response == IF out.fails # "none" THEN ChatErrorText
                               ELSE out.text
            IN  /\ session' =
                       [session EXCEPT
                           !.chat_initialized = TRUE,
                           !.chat_history =
                               Appended(@, prompt, ai_response)]
                /\ call' = [NoCall EXCEPT !.op = "chat", !.backend = out]
    /\ report' = NoReport
    /\ UNCHANGED <<db, stored>>

\* render_generate_resume_page, Generate PDF or Generate DOCX.  The preview
\* reads resume_data.get and raises on what is not a mapping, before the
\* buttons are drawn.
GenerateResume(use_optimized) ==
    /\ UNCHANGED <<selection, uploads>>
    /\ ResumeAvailable(session)
    /\ LET resume_data ==
               IF Truthy(session.optimized_resume) /\ use_optimized
               THEN session.optimized_resume
               ELSE session.resume_data
       IN  call' = [NoCall EXCEPT
                       !.op = "generate_resume",
                       !.raised = ~IsDict(resume_data),
                       !.result = IF IsDict(resume_data) THEN resume_data
                                  ELSE JNull]
    /\ report' = NoReport
    /\ UNCHANGED <<session, db, stored>>


\* A call of set_model_provider, by the settings page or by anyone.
SetModelProviderCall(provider, model, broken) ==
    /\ \E r \in {SetModelProvider(selection, provider, model, broken)} :
           /\ selection' = r.selection
           /\ call' = [NoCall EXCEPT !.op = "set_model_provider",
                                     !.result = JBool(r.ret),
                                     !.raised = r.raised,
                                     !.provider = provider,
                                     !.model = model,
                                     !.broken = broken,
                                     !.before = selection]
    /\ UNCHANGED <<session, db, report, stored, uploads>>

\* A call of initialize_model.
InitializeModelCall(env_provider, env_llm, env_ollama, broken) ==
    /\ \E r \in {InitializeModel(selection, env_provider, env_llm,
                                 env_ollama, broken)} :
           /\ selection' = r.selection
           /\ call' = [NoCall EXCEPT !.op = "initialize_model",
                                     !.result = JBool(r.ret),
                                     !.provider = env_provider,
                                     !.model = r.model,
                                     !.broken = broken,
                                     !.before = selection]
    /\ UNCHANGED <<session, db, report, stored, uploads>>


\* The upload page of two browser sessions, each run by its own thread, step
\* by step.  Session u has a file in its uploader.
ChooseFile(u, name, content) ==
    /\ uploads.run[u].pc = "idle"
    /\ uploads' = [uploads EXCEPT !.run[u] =
                      [pc |-> "chosen", name |-> name, content |-> content,
                       resume_text |-> 0, parsed |-> 0]]
    /\ UNCHANGED <<session, db, call, report, stored, selection>>

\* save_uploaded_file, open(file_path, "wb"): the file of that name in
\* data/uploads is created, or emptied.
OpenUploadedFile(u) ==
    /\ uploads.run[u].pc = "chosen"
    /\ uploads' = [uploads EXCEPT !.run[u].pc = "opened",
                                  !.disk[uploads.run[u].name] = 0]
    /\ UNCHANGED <<session, db, call, report, stored, selection>>

\* save_uploaded_file, f.write(uploaded_file.getbuffer()) and the close.
WriteUploadedFile(u) ==
    /\ uploads.run[u].pc = "opened"
    /\ uploads' = [uploads EXCEPT !.run[u].pc = "saved",
                                  !.disk[uploads.run[u].name] =
                                      uploads.run[u].content]
    /\ UNCHANGED <<session, db, call, report, stored, selection>>

\* extract_text_from_file(file_path) reads what the file of that name holds
\* now.
ExtractTextFromFile(u) ==
    /\ uploads.run[u].pc = "saved"
    /\ uploads' = [uploads EXCEPT !.run[u].pc = "extracted",
                                  !.run[u].resume_text =
                                      uploads.disk[uploads.run[u].name]]
    /\ UNCHANGED <<session, db, call, report, stored, selection>>

\* if resume_text: parse_resume(resume_text), and the session keeps what was
\* parsed; an empty text is an error.
ParseResumeText(u) ==
    /\ uploads.run[u].pc = "extracted"
    /\ uploads' = [uploads EXCEPT
                      !.run[u].pc = IF uploads.run[u].resume_text # 0
                                    THEN "parsed" ELSE "failed",
                      !.run[u].parsed = uploads.run[u].resume_text]
    /\ UNCHANGED <<session, db, call, report, stored, selection>>

\* The run of the page has ended; the next file may be chosen.
EndOfRun(u) ==
    /\ uploads.run[u].pc \in {"parsed", "failed"}
    /\ uploads' = [uploads EXCEPT !.run[u].pc = "idle"]
    /\ UNCHANGED <<session, db, call, report, stored, selection>>


\* The upload page stores a parsed resume that has one experience, with the
\* achievements given.
StoreExperience(achievements) ==
    /\ UNCHANGED <<selection, uploads>>
    /\ session.user_id # 0 \/ Len(db.users) < MaxUsers
    /\ StoreResumeData(
           ResumeOf("Ann", <<ExperienceOf("Acme", achievements)>>, <<>>, <<>>),
           "none", [NoCall EXCEPT !.steps = UploadSteps("stored")])
    /\ report' = NoReport

\* ------------------------------------------------------------ specifications

\* What an upload meets: the save fails, the file gives no text, or the text
\* is parsed with the backend giving out.
UploadInputs ==
    {<<"save_failed", BackendError("invoke")>>,
     <<"no_text", BackendError("invoke")>>}
    \cup {<<"parse", out>> : out \in UploadOutcomes}

\* The arguments of a call of optimize_resume_for_job and the completions
\* it gets: the job analysis is given, or it is None and the job extraction
\* is run.
OptimizeInputs ==
    {<<SampleJob, BackendError("invoke"), out>> : out \in OptimizeOutcomes}
    \cup {<<job_analysis, out_job, Reply(<<"x">>)>> :
             job_analysis \in {JNull, EmptyDict},
             out_job \in {BackendError("invoke"), Reply(Dumps(SampleJob))}}

\* The application: resumes are stored and cleared, and a caller optimizes.
\* optimize_resume_for_job writes nothing, so a run is followed up to its
\* first call of it.
Init ==
    /\ session = InitialSession
    /\ db = EmptyDb
    /\ call = NoCall
    /\ report = NoReport
    /\ stored = NothingStored
    /\ selection = DefaultSelection
    /\ uploads = NoUploads

Next ==
    \/ /\ call.op # "optimize_resume_for_job"
       /\ \E in \in UploadInputs : UploadResume(in[1], in[2])
    \/ /\ call.op # "optimize_resume_for_job"
       /\ \E name \in {<<"Dee">>}, fault \in Faults :
             ManualEntry(name, <<>>, fault)
    \/ /\ call.op # "optimize_resume_for_job"
       /\ ClearAllData
    \/ /\ call.op # "optimize_resume_for_job"
       /\ \E user_id \in 0..MaxUsers, in \in OptimizeInputs :
             OptimizeCall(user_id, in[1], in[2], in[3])
    \/ /\ call.op # "optimize_resume_for_job"
       /\ \E out \in OptimizeOutcomes : OptimizeBlock(SampleJob, out)

Spec == Init /\ [][Next]_vars

\* The extractors alone.  A call reads nothing of the state, so each
\* completion is parsed once by each extractor, and each mapping returned
\* is parsed again from its serialization.
NextExtract ==
    \/ /\ call.op = "none"
       /\ \E out \in ExtractOutcomes : ParseResumeCall(out)
    \/ /\ call.op = "none"
       /\ \E out \in ExtractOutcomes : AnalyzeJobDescriptionCall(out)
    \/ ReapplyToSerialization

SpecExtract == Init /\ [][NextExtract]_vars

\* The job matching page, in a session that holds a stored resume: one
\* click of Analyze Job Description.
InitMatch ==
    \E names \in SeqsUpTo(SkillValues, MaxResumeSkills) :
        LET resume_data == ResumeWithSkills(names)
            cu == CreateOrUpdateUser(EmptyDb, 0, resume_data, "none")
        IN  /\ session = [InitialSession EXCEPT !.resume_data = resume_data,
                                                !.user_id = cu.user_id]
            /\ db = cu.db
            /\ call = NoCall
            /\ report = NoReport
            /\ stored = [NothingStored EXCEPT ![cu.ret] = resume_data]
            /\ selection = DefaultSelection
            /\ uploads = NoUploads

MatchInputs ==
    {<<<<>>, BackendError("invoke")>>}
    \cup {<<<<"jd">>, out>> : out \in MatchOutcomes}

NextMatch ==
    /\ call.op = "none"
    /\ \E in \in MatchInputs : AnalyzeJobClick(in[1], in[2])

SpecMatch == InitMatch /\ [][NextMatch]_vars

\* The pages of the application, as the user goes through them.
UIUploadInputs ==
    {<<"save_failed", BackendError("invoke")>>,
     <<"no_text", BackendError("invoke")>>,
     <<"parse", BackendError("invoke")>>,
     <<"parse", Reply(<<"[", "1", "]">>)>>,
     <<"parse", Reply(Dumps(BasicInfoOnly))>>,
     <<"parse", Reply(FencedJson(ResumeOf("Cy", <<>>, <<SkillOf(Word("a"))>>,
                                          <<>>)))>>}

UIJobInputs ==
    {<<<<>>, BackendError("invoke")>>,
     <<<<"jd">>, BackendError("invoke")>>,
     <<<<"jd">>, Reply(FencedJson(SampleJob))>>,
     <<<<"jd2">>, Reply(FencedJson(JobOf(<<Word("c")>>, <<>>)))>>,
     <<<<"jd2">>, Reply(<<"{", "x">>)>>}

UIChatInputs ==
    {<<TRUE, BackendError("invoke")>>,
     <<FALSE, BackendError("invoke")>>,
     <<FALSE, Reply(<<"x">>)>>}

NextUI ==
    \/ \E in \in UIUploadInputs : UploadResume(in[1], in[2])
    \/ \E fault \in Faults : ManualEntry(<<"Dee">>, <<>>, fault)
    \/ ClearAllData
    \/ \E in \in UIJobInputs : AnalyzeJobClick(in[1], in[2])
    \/ OptimizeClick
    \/ \E in \in UIChatInputs : ChatSubmit(<<"hi">>, in[1], in[2])
    \/ \E use_optimized \in BOOLEAN : GenerateResume(use_optimized)

SpecUI == Init /\ [][NextUI]_vars


\* The selection of the model: the values the environment and the settings
\* page give, and the classes whose constructor raises.
ProviderNames == {"openai", "ollama", "OpenAI", "other"}
OpenAiModels == {"gpt-4-turbo", "gpt-3.5-turbo"}
OllamaModels == {"mistral", "llama2"}
BrokenSets == SUBSET {"openai", "ollama"}

\* The module is imported with the environment as it is then.
InitModel ==
    /\ session = InitialSession
    /\ db = EmptyDb
    /\ call = NoCall
    /\ report = NoReport
    /\ stored = NothingStored
    /\ uploads = NoUploads
    /\ \E p \in {"openai", "ollama"}, m \in OpenAiModels, o \in OllamaModels :
           selection = [MODEL_PROVIDER |-> p, LLM_MODEL |-> m,
                        OLLAMA_MODEL |-> o]

NextModel ==
    \/ \E provider \in ProviderNames,
          model \in {""} \cup OpenAiModels \cup OllamaModels,
          broken \in BrokenSets :
           SetModelProviderCall(provider, model, broken)
    \/ \E env_provider \in ProviderNames, env_llm \in OpenAiModels,
          env_ollama \in OllamaModels, broken \in BrokenSets :
           InitializeModelCall(env_provider, env_llm, env_ollama, broken)

SpecModel == InitModel /\ [][NextModel]_vars


\* Two sessions upload at the same time.
NextUploads ==
    \E u \in Sessions :
        \/ \E name \in FileNames, content \in 1..MaxContents :
               ChooseFile(u, name, content)
        \/ OpenUploadedFile(u)
        \/ WriteUploadedFile(u)
        \/ ExtractTextFromFile(u)
        \/ ParseResumeText(u)
        \/ EndOfRun(u)

SpecUploads == Init /\ [][NextUploads]_vars


\* Achievements are stored and read back: an experience is stored with each
\* list of achievements, and optimize_resume_for_job rebuilds the resume
\* from the rows.
AchievementTexts ==
    {<<>>, <<"a">>, <<"b">>, <<NL>>, <<"a", NL, "b">>}

AchievementLists ==
    SeqsUpTo({JStr(t) : t \in AchievementTexts}, MaxAchievements)

NextAchievements ==
    \/ \E achievements \in AchievementLists : StoreExperience(achievements)
    \/ /\ session.user_id # 0
       /\ \E out \in BackendErrors \cup {Reply(<<"x">>)} :
              OptimizeCall(session.user_id, SampleJob, BackendError("invoke"),
                           out)

SpecAchievements == Init /\ [][NextAchievements]_vars

\* ------------------------------------------------------------ properties
\* What the specification says of the program, stated on the calls and
\* reports the steps leave in the state.

Extractors == {"parse_resume", "analyze_job_description"}

\* The completion of the last call was not valid JSON after fence
\* stripping: the backend replied and json.loads refused the string.
ParseFailed == call.backend.fails = "none" /\ call.parsed
               /\ ~JsonLoads(call.json_str).ok

\* Two resume records are equal field for field: each field of the basic
\* info and each of the seven sequences, an absent field being the empty
\* string and an absent sequence the empty one.
FieldForField(x, y) ==
    /\ IsDict(x) /\ IsDict(y)
    /\ \A k \in Range(BasicKeys) :
          PyEq(Get(Get(x, K("basic_info"), EmptyDict), K(k), EmptyStr),
               Get(Get(y, K("basic_info"), EmptyDict), K(k), EmptyStr))
    /\ \A section \in Range(SectionKeys) :
          PyEq(Get(x, K(section), EmptyList), Get(y, K(section), EmptyList))

\* C1: when the completion of optimize_resume_for_job is not valid JSON
\* after fence stripping, the call returns a record equal field for field
\* (basic info and the seven sequences) to the record most recently stored
\* for the user, and never the empty mapping.
C1_FailedParseReturnsStoredRecord ==
    ( /\ call.op = "optimize_resume_for_job"
      /\ UserExists(db, call.user_id)
      /\ stored[call.user_id] # JNull
      /\ ParseFailed )
    => /\ ~call.raised
       /\ call.result # EmptyDict
       /\ FieldForField(call.result, stored[call.user_id])

\* C2: when the backend call itself fails during optimize_resume_for_job
\* for an existing user, the call does not raise and returns the original
\* resume record, as for a parse failure, not the empty mapping.
C2_BackendFailureReturnsOriginal ==
    ( /\ call.op = "optimize_resume_for_job"
      /\ UserExists(db, call.user_id)
      /\ call.backend.fails # "none" )
    => /\ ~call.raised
       /\ call.result # EmptyDict
       /\ PyEq(call.result, ResumeDataOf(db, call.user_id))

\* C3: parse_resume and analyze_job_description never raise to their caller,
\* and return the empty mapping when the backend call fails or the
\* completion is not valid JSON after fence stripping.
C3_ExtractorsDegradeToEmpty ==
    call.op \in Extractors =>
        /\ ~call.raised
        /\ (call.backend.fails # "none" \/ ParseFailed)
               => call.result = EmptyDict

\* C3 happens: a fenced completion whose body is not JSON has been given to
\* analyze_job_description, which returned {}.
C3_Witness ==
    /\ call.op = "analyze_job_description"
    /\ call.backend = Reply(FenceJson \o <<"{", "x">> \o Fence)
    /\ call.json_str = <<"{", "x">>
    /\ ~call.raised
    /\ call.result = EmptyDict

\* The string the specification hands to the JSON parser: between the
\* first json marker and the next fence, else between the first pair of
\* fences, else the whole text; trimmed in each case.
RECURSIVE FirstAt(_, _, _)
FirstAt(text, marker, from) ==
    IF from + Len(marker) - 1 > Len(text) THEN 0
    ELSE IF SubSeq(text, from, from + Len(marker) - 1) = marker THEN from
    ELSE FirstAt(text, marker, from + 1)

Between(text, marker) ==
    LET open == FirstAt(text, marker, 1)
        start == open + Len(marker)
        close == FirstAt(text, Fence, start)
    IN  IF close = 0 THEN SubSeq(text, start, Len(text))
        ELSE SubSeq(text, start, close - 1)

RECURSIVE Trimmed(_)
Trimmed(s) ==
    IF s = <<>> THEN s
    ELSE IF Head(s) \in PyWhitespace THEN Trimmed(Tail(s))
    ELSE IF s[Len(s)] \in PyWhitespace THEN Trimmed(SubSeq(s, 1, Len(s) - 1))
    ELSE s

ChosenString(text) ==
    Trimmed(IF FirstAt(text, FenceJson, 1) # 0 THEN Between(text, FenceJson)
            ELSE IF FirstAt(text, Fence, 1) # 0 THEN Between(text, Fence)
            ELSE text)

\* C4: for every completion text, the string handed to the JSON parser is
\* the one between the first json marker and the next fence, else the one
\* between the first pair of fences, else the whole text, and it is trimmed
\* of surrounding whitespace in all three cases.
C4_ParserGetsChosenTrimmedString ==
    (call.op # "none" /\ call.parsed) =>
        call.json_str = ChosenString(call.backend.text)

\* J in a json fence, with or without line feeds around it, followed by
\* prose.
Wrapped(J, prose) ==
    {FenceJson \o J \o Fence \o prose,
     FenceJson \o <<NL>> \o J \o <<NL>> \o Fence \o prose}

HasBacktickSequence(J) == FirstAt(J, Fence, 1) # 0

\* C5: every well-formed JSON object J, the ones with braces or backtick
\* sequences in their string values included, wrapped in a json fence and
\* followed by any prose, is extracted to the mapping that parsing J alone
\* gives; the prose never affects the result.
C5_FencedObjectExtractedExactly ==
    \A J \in WellFormedObjects, prose \in Proses :
        (call.op \in Extractors /\ call.backend.fails = "none"
         /\ call.backend.text \in Wrapped(J, prose))
        => /\ ~call.raised
           /\ JsonLoads(J).ok
           /\ call.result = JsonLoads(J).val

\* C6: a completion with no fence whose trimmed content is valid JSON is
\* returned as that content parses, and extracting from the canonical
\* serialization of a returned mapping returns that same mapping.
C6_UnfencedJsonUnchangedAndIdempotent ==
    /\ ( /\ call.op \in Extractors /\ ~call.again
         /\ call.backend.fails = "none"
         /\ ~HasBacktickSequence(call.backend.text)
         /\ JsonLoads(Trimmed(call.backend.text)).ok )
       => /\ ~call.raised
          /\ call.result = JsonLoads(Trimmed(call.backend.text)).val
    /\ (call.op \in Extractors /\ call.again)
       => (~call.raised /\ PyEq(call.result, call.prev))

\* C7: what parse_resume and analyze_job_description return is a mapping,
\* whatever the completion: JSON that is a list, a number, a string, a
\* boolean or null never comes back as it is.
C7_ExtractorsReturnMapping ==
    call.op \in Extractors => (~call.raised /\ IsDict(call.result))

\* t is a substring of r when neither is told from its lower case.
CaseInsensitiveSubstring(t, r) ==
    LET lt == Lower(t.str)
        lr == Lower(r.str)
    IN  \E i \in 1..(Len(lr) + 1) :
            /\ i + Len(lt) - 1 <= Len(lr)
            /\ SubSeq(lr, i, i + Len(lt) - 1) = lt

\* The elements of seq at the positions of I, in the order of seq.
ElementsAt(seq, I) ==
    [k \in 1..Cardinality(I) |->
        seq[CHOOSE i \in I : Cardinality({j \in I : j < i}) = k - 1]]

AllTarget == report.required \o report.preferred

\* C8: matching_skills is the sequence of the elements r of resume_skills
\* for which some element t of required ++ preferred is a case-insensitive
\* substring of r.
C8_MatchingSkillsDefinition ==
    report.shown =>
        report.matching =
            ElementsAt(report.resume_skills,
                       {i \in 1..Len(report.resume_skills) :
                           \E j \in 1..Len(AllTarget) :
                               CaseInsensitiveSubstring(
                                   AllTarget[j], report.resume_skills[i])})

\* C8 happens: a resume skill in capitals that contains a required skill
\* given in lower case is matched, one that contains none is not.
C8_Witness ==
    /\ report.shown
    /\ report.resume_skills = <<JStr(<<"A", "B">>), JStr(<<"c">>)>>
    /\ report.required = <<JStr(<<"a">>)>>
    /\ report.preferred = <<>>
    /\ report.matching = <<JStr(<<"A", "B">>)>>

\* C9: missing_skills is the sequence of the elements t of required ++
\* preferred that no element of resume_skills contains as a
\* case-insensitive substring.
C9_MissingSkillsDefinition ==
    report.shown =>
        report.missing =
            ElementsAt(AllTarget,
                       {j \in 1..Len(AllTarget) :
                           \A i \in 1..Len(report.resume_skills) :
                               ~CaseInsensitiveSubstring(
                                   AllTarget[j], report.resume_skills[i])})

\* C9 happens: a resume with one skill, and of two required and one
\* preferred skill the one it contains in another case is not missing.
C9_Witness ==
    /\ report.shown
    /\ report.resume_skills = <<JStr(<<"A", "B">>)>>
    /\ report.required = <<JStr(<<"c">>), JStr(<<"a">>)>>
    /\ report.preferred = <<JStr(<<"c">>)>>
    /\ report.missing = <<JStr(<<"c">>), JStr(<<"c">>)>>

RECURSIVE IsSubsequence(_, _)
IsSubsequence(a, b) ==
    IF a = <<>> THEN TRUE
    ELSE IF b = <<>> THEN FALSE
    ELSE IF Head(a) = Head(b) THEN IsSubsequence(Tail(a), Tail(b))
    ELSE IsSubsequence(a, Tail(b))

Occurrences(x, seq) == Cardinality({i \in 1..Len(seq) : seq[i] = x})

\* C10: matching_skills is a subsequence of resume_skills in resume order,
\* missing_skills is a subsequence of required ++ preferred in that order,
\* and an element that is selected occurs in the output as many times as
\* in its source.
C10_OrderAndMultiplicityKept ==
    report.shown =>
        /\ IsSubsequence(report.matching, report.resume_skills)
        /\ IsSubsequence(report.missing, AllTarget)
        /\ \A x \in Range(report.matching) :
              Occurrences(x, report.matching)
                  = Occurrences(x, report.resume_skills)
        /\ \A x \in Range(report.missing) :
              Occurrences(x, report.missing) = Occurrences(x, AllTarget)

\* C10 happens: a skill held twice is matched twice, and a target that is
\* required once and preferred once is missing twice, the target between
\* them being held.
C10_Witness ==
    /\ report.shown
    /\ report.resume_skills = <<JStr(<<"a">>), JStr(<<"a">>)>>
    /\ report.required = <<JStr(<<"c">>), JStr(<<"a">>)>>
    /\ report.preferred = <<JStr(<<"c">>)>>
    /\ report.matching = <<JStr(<<"a">>), JStr(<<"a">>)>>
    /\ report.missing = <<JStr(<<"c">>), JStr(<<"c">>)>>

\* C11: computing the match report raises no error, whatever parsed resume
\* and parsed job analysis it is given (missing keys, empty lists, empty
\* and null skill names, null skill lists), and when the resume skills,
\* the required and the preferred skills are all empty so are
\* matching_skills and missing_skills.
C11_MatchIsTotal ==
    /\ ~report.raised
    /\ ( /\ report.shown
         /\ report.resume_skills = <<>>
         /\ report.required = <<>>
         /\ report.preferred = <<>> )
       => (report.matching = <<>> /\ report.missing = <<>>)

C13_ValidPayloadReturnedExactly ==
    \A payload \in {JsonLoads(call.backend.text)} :
        ( /\ call.op = "optimize_resume_for_job"
          /\ UserExists(db, call.user_id)
          /\ call.backend.fails = "none"
          /\ payload.ok
          /\ IsDict(payload.val)
          /\ HasKey(payload.val, K("experiences")) )
        => /\ ~call.raised
           /\ call.result = payload.val
           /\ Get(call.result, K("experiences"), JNull)
                  = Get(payload.val, K("experiences"), JNull)

\* v has the field schema of a resume record: a mapping with basic_info
\* and the seven sequence keys.
ResumeShaped(v) ==
    /\ IsDict(v)
    /\ HasKey(v, K("basic_info"))
    /\ IsDict(Get(v, K("basic_info"), JNull))
    /\ \A section \in Range(SectionKeys) :
          HasKey(v, K(section)) /\ IsList(Get(v, K(section), JNull))

\* C14: every result of optimize_resume_for_job for an existing user is a
\* mapping with the field schema of the input record, basic_info and the
\* seven sequence keys, whatever JSON the backend returns.
C14_ResultIsResumeShaped ==
    ( /\ call.op = "optimize_resume_for_job"
      /\ UserExists(db, call.user_id)
      /\ call.backend.fails = "none" )
    => (~call.raised /\ ResumeShaped(call.result))

\* C15: called with a user identifier that is not in the store,
\* optimize_resume_for_job gives an explicit failure signal, an error raised
\* or a value that is not a mapping, which the caller can tell from the
\* empty mapping and the unchanged resume of the backend and parse
\* failures.
C15_UnknownUserSignalled ==
    (call.op = "optimize_resume_for_job" /\ ~UserExists(db, call.user_id))
    => (call.raised \/ ~IsDict(call.result))

\* Every key of the schema is there: each field of basic_info and each of
\* the seven sequences.
AllSchemaKeys(v) ==
    /\ ResumeShaped(v)
    /\ \A k \in Range(BasicKeys) :
          HasKey(Get(v, K("basic_info"), EmptyDict), K(k))

\* C16: every resume record the application creates or keeps in the session
\* state, from the extraction, from the manual form, or rebuilt from the
\* database for the optimisation, has every key of the schema, absence
\* being an empty string or an empty sequence and never a missing key.
C16_RecordsHaveAllSchemaKeys ==
    /\ session.resume_data # EmptyDict => AllSchemaKeys(session.resume_data)
    /\ (call.op = "optimize_resume_for_job" /\ UserExists(db, call.user_id))
       => AllSchemaKeys(call.resume_data)

\* What the database holds for user_id is R and nothing else: each field of
\* the basic info, and the experiences, educations and skills, as they are
\* read back from the rows, are those of R.
PersistedIs(d, user_id, R) ==
    LET p == ResumeDataOf(d, user_id)
    IN  /\ \A k \in Range(BasicKeys) :
              PyEq(Get(Get(p, K("basic_info"), EmptyDict), K(k), EmptyStr),
                   Get(Get(R, K("basic_info"), EmptyDict), K(k), EmptyStr))
        /\ \A section \in {"experiences", "educations", "skills"} :
              PyEq(Get(p, K(section), EmptyList),
                   Get(R, K(section), EmptyList))

\* C17: after create_or_update_user(R) succeeds, the persisted basic info,
\* experiences, educations and skills are exactly those of R and nothing of
\* the record stored before remains, for every R, one that lacks a section
\* key included.
C17_StoreReplacesWholesale ==
    call.saved # 0 => PersistedIs(db, call.saved, session.resume_data)

\* C19: a failed upload never replaces existing data.  A run of the upload
\* page in which saving the file fails, no text is extracted or parse_resume
\* returns the empty mapping leaves the session resume_data, the session
\* user_id and the persisted record as they were and shows an error; and
\* create_or_update_user is called, and resume_data assigned, only after
\* save, extract and parse have succeeded in that order.
C19_FailedUploadChangesNothing ==
    [][ (call'.steps # <<>> /\ call'.steps[1] = "save_uploaded_file")
        => /\ \A i \in 1..Len(call'.steps) :
                 call'.steps[i] = UploadSteps("stored")[i]
           /\ (Len(call'.steps) < 4)
              => /\ call'.error
                 /\ session' = session
                 /\ db' = db
                 /\ stored' = stored
           /\ (Len(call'.steps) = 4)
              => (Truthy(call'.result)
                  /\ session'.resume_data = call'.result) ]_vars

\* C19 happens: with a resume stored, an upload whose completion does not
\* parse has ended in an error and the stored resume is still there.
C19_Witness ==
    /\ call.steps = UploadSteps("parse_failed")
    /\ call.error
    /\ call.result = EmptyDict
    /\ session.user_id # 0
    /\ Truthy(session.resume_data)
    /\ stored[session.user_id] = session.resume_data

\* The six fields of the session that hold the resume record have the
\* values init_session_state gives them.
Destroyed(s) ==
    /\ s.user_id = 0
    /\ s.chat_history = <<>>
    /\ s.resume_data = EmptyDict
    /\ s.job_description = <<>>
    /\ s.job_analysis = EmptyDict
    /\ s.optimized_resume = EmptyDict

\* The step is a run of the upload page or of the manual form that reached
\* create_or_update_user.
ResumeEntered ==
    /\ call'.steps # <<>>
    /\ call'.steps[Len(call'.steps)] = "create_or_update_user"

\* C18: Clear All Data destroys the resume record of the session.  A Clear
\* All Data step leaves user_id None and chat_history, resume_data,
\* job_description, job_analysis and optimized_resume at their initial
\* empty values; and from a state where they are so, every step that is not
\* a new upload or manual entry keeps them so, calls no operation on a
\* resume (no chat, job analysis, optimization or export) and shows no
\* match report.
C18_ClearDestroysSessionRecord ==
    [][ /\ ClearAllData => Destroyed(session')
        /\ (Destroyed(session) /\ ~ResumeEntered)
           => /\ Destroyed(session')
              /\ call'.op \notin {"chat", "analyze_job_description",
                                  "optimize_resume_for_job",
                                  "generate_resume"}
              /\ ~report'.shown ]_vars

\* C18 happens: a resume was persisted, a job was analysed for it and the
\* chat was used, and the session holds none of it any more.
C18_Witness ==
    /\ Destroyed(session)
    /\ Len(db.users) > 0
    /\ session.chat_initialized
    /\ call = NoCall


\* C20: in every run of the UI, job analysis, skill matching, optimization
\* and document export happen only while the session resume_data is not
\* empty, and optimize_resume_for_job is called only with a non-empty job
\* analysis, the one the session holds for the entered job description; so
\* none of them happens before a resume is stored, or after Clear All Data
\* until a resume is stored again.
C20_ResumeOperationsNeedResume ==
    /\ (\/ call.op \in {"analyze_job_description", "optimize_resume_for_job",
                        "generate_resume"}
        \/ report.shown)
       => /\ Truthy(session.resume_data)
          /\ ~Destroyed(session)
    /\ call.op = "optimize_resume_for_job"
       => /\ Truthy(call.supplied)
          /\ call.supplied = session.job_analysis
          /\ session.job_description # <<>>

\* C20 happens: with a resume stored, the entered job description has been
\* analysed and the match report is shown, one skill matching.
C20_Witness ==
    /\ call.op = "analyze_job_description"
    /\ report.shown
    /\ Len(report.matching) > 0
    /\ session.user_id # 0
    /\ Truthy(session.resume_data)
    /\ session.job_description # <<>>


\* C21: on the Job Matching page, after an Analyze Job Description click
\* whose analysis is not empty, the run started by a click on Optimize
\* Resume for This Job calls optimize_resume_for_job with the session
\* user_id, the job description and that job analysis.
C21_OptimizeClickCallsOptimizer ==
    [][ OptimizeClick
        => /\ call'.op = "optimize_resume_for_job"
           /\ call'.user_id = session.user_id
           /\ call'.supplied = session.job_analysis ]_vars


\* The provider configured names a class, and its constructor does not
\* raise: the model was initialised.
Initialised(provider, broken) ==
    /\ LowerName(provider) \in {"openai", "ollama"}
    /\ LowerName(provider) \notin broken

\* C22: initialize_model returns True only when the configured provider
\* was initialised, and False when initialising it failed; and when it
\* failed and the configured provider is not openai, openai with
\* gpt-4-turbo is selected.
C22_InitializeModelReportsFailure ==
    call.op = "initialize_model"
    => /\ call.result = JBool(Initialised(call.provider, call.broken))
       /\ (~Initialised(call.provider, call.broken)
           /\ call.provider # "openai")
          => /\ selection.MODEL_PROVIDER = "openai"
             /\ selection.LLM_MODEL = "gpt-4-turbo"

\* C23: set_model_provider is atomic on failure.  Whenever it returns
\* False, MODEL_PROVIDER, LLM_MODEL and OLLAMA_MODEL are what they were
\* before the call.
C23_SetModelProviderAtomicOnFailure ==
    (call.op = "set_model_provider" /\ call.result = JBool(FALSE))
    => selection = call.before


\* C24: a non-empty session job_analysis is the analysis of the text held in
\* session job_description.  Stated on the steps: a step that leaves a
\* non-empty job_analysis and changes job_description or job_analysis is an
\* analysis of the job description the session holds after it, and
\* job_analysis is what that analysis returned.
C24_JobAnalysisPairedWithDescription ==
    [][ (/\ Truthy(session'.job_analysis)
         /\ \/ session'.job_description # session.job_description
            \/ session'.job_analysis # session.job_analysis)
        => /\ call'.op = "analyze_job_description"
           /\ session'.job_analysis = call'.result ]_vars


\* C25: whenever the session resume_data is not empty, the session user_id
\* is not None and names a persisted user whose basic info, experiences,
\* educations and skills are those of resume_data.
C25_ResumeDataHasPersistedUser ==
    Truthy(session.resume_data)
    => /\ session.user_id # 0
       /\ UserExists(db, session.user_id)
       /\ PersistedIs(db, session.user_id, session.resume_data)


\* Messages of the user and of the assistant in turn, the user first, and
\* as many of the one as of the other.
Alternating(chat_history) ==
    /\ Len(chat_history) % 2 = 0
    /\ \A i \in 1..Len(chat_history) :
           chat_history[i].role = IF i % 2 = 1 THEN "user" ELSE "assistant"

\* C26: the session chat_history is always an alternating sequence of user
\* and assistant messages that starts with a user message and has even
\* length; a chat submission, one whose backend fails included, appends
\* exactly one user message and then exactly one assistant message; and no
\* other step changes chat_history, except Clear All Data, which empties
\* it.
C26_ChatHistoryAlternates ==
    [][ /\ Alternating(session'.chat_history)
        /\ (session'.chat_history # session.chat_history)
           => \/ /\ call'.op = "chat"
                 /\ Len(session'.chat_history)
                        = Len(session.chat_history) + 2
                 /\ SubSeq(session'.chat_history, 1,
                           Len(session.chat_history)) = session.chat_history
              \/ /\ call'.op = "none"
                 /\ Destroyed(session') ]_vars

\* C26 happens: two submissions were made, the backend failing for the
\* first and answering the second.
C26_Witness ==
    /\ Len(session.chat_history) = 4
    /\ session.chat_history[2].content = ChatErrorText
    /\ session.chat_history[4].content # ChatErrorText
    /\ call.op = "chat"


\* C27: with two sessions running concurrently, the resume text a session
\* extracts, parses and stores is the content of the file that same session
\* uploaded, for every interleaving of the save and extract steps of the
\* two, files of the same name included.
C27_SessionParsesOwnFile ==
    \A u \in Sessions :
        /\ uploads.run[u].pc \in {"extracted", "parsed", "failed"}
           => uploads.run[u].resume_text = uploads.run[u].content
        /\ uploads.run[u].pc = "parsed"
           => uploads.run[u].parsed = uploads.run[u].content


\* The achievements of the first experience of the resume v.
FirstAchievements(v) ==
    Get(Get(v, K("experiences"), EmptyList).list[1], K("achievements"),
        EmptyList)

\* C28: persisting and reloading achievements is a round trip.  For an
\* experience stored by create_or_update_user with a list L of strings as
\* its achievements, the resume optimize_resume_for_job rebuilds from the
\* rows has exactly L as the achievements of that experience; the empty
\* list, a list holding an empty string and strings that hold a line feed
\* included.
C28_AchievementsRoundTrip ==
    (call.op = "optimize_resume_for_job" /\ UserExists(db, call.user_id))
    => FirstAchievements(call.resume_data)
           = FirstAchievements(session.resume_data)


\* C29: the two halves of the match report are consistent.  matching_skills
\* is empty if and only if missing_skills is the whole of required ++
\* preferred; and a target is reported missing exactly when no resume skill
\* contains it, case ignored, which is when it contributes to no match:
\* no skill reported as matching contains it.
C29_ReportHalvesConsistent ==
    report.shown =>
        /\ (report.matching = <<>>) <=> (report.missing = AllTarget)
        /\ \A j \in 1..Len(AllTarget) :
               /\ (AllTarget[j] \in Range(report.missing))
                  <=> (\A i \in 1..Len(report.resume_skills) :
                          ~CaseInsensitiveSubstring(AllTarget[j],
                                                    report.resume_skills[i]))
               /\ (AllTarget[j] \in Range(report.missing))
                  <=> (\A i \in 1..Len(report.matching) :
                          ~CaseInsensitiveSubstring(AllTarget[j],
                                                    report.matching[i]))

\* C29 happens: a resume with skills none of which contains a target has
\* no matching skill, and every target, the preferred one too, is missing.
C29_Witness ==
    /\ report.shown
    /\ report.resume_skills = <<JStr(<<"c">>), JStr(<<>>)>>
    /\ report.required = <<JStr(<<"a">>)>>
    /\ report.preferred = <<JStr(<<"A", "B">>)>>
    /\ report.matching = <<>>
    /\ report.missing = <<JStr(<<"a">>), JStr(<<"A", "B">>)>>


\* C30: optimization never alters the original data of the user.  A step
\* that calls optimize_resume_for_job writes nothing to the persisted
\* record and leaves the session resume_data, user_id, job_description,
\* job_analysis and chat_history as they were; it changes at most the
\* session optimized_resume, and not even that when the result is empty.
C30_OptimizeLeavesOriginalData ==
    [][ call'.op = "optimize_resume_for_job"
        => /\ db' = db
           /\ stored' = stored
           /\ session'.resume_data = session.resume_data
           /\ session'.user_id = session.user_id
           /\ session'.job_description = session.job_description
           /\ session'.job_analysis = session.job_analysis
           /\ session'.chat_history = session.chat_history
           /\ ~Truthy(call'.result)
              => session'.optimized_resume = session.optimized_resume
           /\ session'.optimized_resume # session.optimized_resume
              => session'.optimized_resume = call'.result ]_vars

\* C30 happens: the optimization gave a resume other than the one of the
\* session; it is kept as optimized_resume, and the resume of the session
\* and the persisted one are still what was stored.
C30_Witness ==
    /\ call.op = "optimize_resume_for_job"
    /\ Truthy(call.result)
    /\ session.optimized_resume = call.result
    /\ session.optimized_resume # session.resume_data
    /\ session.user_id # 0
    /\ stored[session.user_id] = session.resume_data
    /\ PersistedIs(db, session.user_id, session.resume_data)

=============================================================================
